---- MODULE Spec2Model ----
(***************************************************************************)
(* Model of gfg_langchain_falcon.py: the pipeline gfg_to_json              *)
(* (remove old file -> fetch -> extract -> model call -> JSON parse ->     *)
(* schema validation -> write) together with the pure functions it calls:  *)
(* fetch_gfg_profile, parse_profile_html.grab_num, json.loads with the     *)
(* brace-scan fallback, and the GFGProfile schema.                         *)
(*                                                                         *)
(* Texts are sequences of lexical tokens.                                  *)
(*  - A page text is a sequence over TextAlphabet: a label word (one token *)
(*    per counter label pattern), ":" and " " (the class [:\s]), the       *)
(*    digits "1" and "2", "," and "x" (any other character).               *)
(*  - A model response is a sequence over JSON tokens: "{", "}", ",",      *)
(*    "n" (a JSON number, 7), "x" (a word that is no JSON token), the      *)
(*    member tokens "U" ("username":"alice"), "Fp" ("followers":3),        *)
(*    "Fn" ("followers":-3), "E" ("contest_rating":1500), and "R"          *)
(*    ("raw_extracted": , which must be followed by a JSON value).         *)
(* Of the schema's fields the model keeps username (the required one),     *)
(* followers (one of the four int|None counters, all declared alike) and   *)
(* raw_extracted (the dict field); the other fields stay at their          *)
(* defaults in every run.                                                  *)
(***************************************************************************)
EXTENDS Integers, Sequences, FiniteSets, TLC

VARIABLES
    file,       \* the output path: [exists, doc]
    oldFile,    \* history: the output path as the current run found it
    pc,         \* position of gfg_to_json
    url,        \* index of the candidate URL the fetch loop is at
    outcomes,   \* history: what each requests.get of this run did
    html,       \* local html: [some, text]
    raw,        \* local raw (the counters of parse_profile_html)
    reply,      \* history: how the model's response was put together
    response,   \* local response (the model's text)
    parsed,     \* local parsed: [kind, obj]
    profile,    \* local profile (the GFGProfile instance)
    result,     \* local result (profile.dict())
    err,        \* the exception the run ended with: [kind, msg]
    steps,      \* history: the steps this run has taken, in order
    wrote,      \* history: this run has written to the output path
    lastOk      \* history: the Profile of the most recent successful run

vars == <<file, oldFile, pc, url, outcomes, html, raw, reply, response,
          parsed, profile, result, err, steps, wrote, lastOk>>

\* ---------------------------------------------------------------- bounds
MaxHtmlLen == 3
MaxMembers == 2
MaxProse == 1

\* ------------------------------------------------------------ sequences
RECURSIVE SeqsOver(_, _)
SeqsOver(S, n) ==
    IF n = 0 THEN {<<>>}
    ELSE LET shorter == SeqsOver(S, n - 1)
         IN  shorter \cup {Append(s, x) : s \in {t \in shorter : Len(t) = n - 1}, x \in S}

Slice(s, i, j) == IF j < i THEN <<>> ELSE SubSeq(s, i, j)

Occurs(x, s) == \E i \in 1..Len(s) : s[i] = x

\* ------------------------------------------------------ JSON value model
Keys == {"username", "followers", "contest_rating", "raw_extracted"}

Val(k, n) == [kind |-> k, n |-> n]
Absent == Val("absent", 0)
Null == Val("null", 0)
EmptyObj == [k \in Keys |-> Absent]
NoParse == [kind |-> "none", obj |-> EmptyObj]

\* ---------------------------------------------------------------- schema
\* class GFGProfile: the three modelled fields and their defaults.
GFGProfile(username, followers, raw_extracted) ==
    [username |-> username, followers |-> followers, raw_extracted |-> raw_extracted]

\* A validation that lets a mapping without a username string through.
FieldsValidLax(obj) ==
    /\ obj["followers"].kind \in {"absent", "null", "int"}
    /\ obj["raw_extracted"].kind \in {"absent", "dict"}

\* Field validation of GFGProfile (pydantic BaseModel with its default
\* configuration): username: str is required; followers: int | None accepts
\* any integer; raw_extracted: dict; keys that are no field are ignored.
FieldsValid(obj) ==
    /\ obj["username"].kind = "str"
    /\ obj["followers"].kind \in {"absent", "null", "int"}
    /\ obj["raw_extracted"].kind \in {"absent", "dict"}

\* GFGProfile(**parsed): the instance built from a mapping that validates.
BuildProfile(obj) ==
    GFGProfile(obj["username"],
               IF obj["followers"].kind = "absent" THEN Null ELSE obj["followers"],
               IF obj["raw_extracted"].kind = "absent" THEN Val("dict", 0)
               ELSE obj["raw_extracted"])

\* profile.dict(): the schema's fields and nothing else.
ProfileDict(p) ==
    [k \in Keys |->
        CASE k = "username" -> p.username
          [] k = "followers" -> p.followers
          [] k = "raw_extracted" -> p.raw_extracted
          [] OTHER -> Absent]

\* ------------------------------------------------------------ json.loads
MemberTokens == {"U", "Fp", "Fn", "E"}

MemberKey(tok) ==
    CASE tok = "U" -> "username"
      [] tok = "Fp" -> "followers"
      [] tok = "Fn" -> "followers"
      [] OTHER -> "contest_rating"

MemberVal(tok) ==
    CASE tok = "U" -> Val("str", 0)
      [] tok = "Fp" -> Val("int", 3)
      [] tok = "Fn" -> Val("int", 0 - 3)
      [] OTHER -> Val("int", 1500)

ParseFail == [ok |-> FALSE, kind |-> "none", obj |-> EmptyObj, next |-> 0]

\* A parsed JSON value as the value of a member.
AsVal(r) ==
    IF r.kind = "dict"
    THEN Val("dict", Cardinality({k \in Keys : r.obj[k].kind # "absent"}))
    ELSE Val("int", 7)

RECURSIVE ParseValue(_, _)
RECURSIVE ParseMembers(_, _, _)

\* One JSON value starting at token i: a number, or an object.
ParseValue(s, i) ==
    IF i > Len(s) THEN ParseFail
    ELSE IF s[i] = "n" THEN [ok |-> TRUE, kind |-> "int", obj |-> EmptyObj, next |-> i + 1]
    ELSE IF s[i] = "{" THEN
        IF i + 1 <= Len(s) /\ s[i + 1] = "}"
        THEN [ok |-> TRUE, kind |-> "dict", obj |-> EmptyObj, next |-> i + 2]
        ELSE ParseMembers(s, i + 1, EmptyObj)
    ELSE ParseFail

\* member ("," member)* "}" starting at token i; a repeated key keeps the
\* last value.
ParseMembers(s, i, acc) ==
    IF i > Len(s) THEN ParseFail
    ELSE LET inner == IF s[i] = "R" THEN ParseValue(s, i + 1) ELSE ParseFail
             isAtom == s[i] \in MemberTokens
             okHere == isAtom \/ inner.ok
             acc2 == IF isAtom THEN [acc EXCEPT ![MemberKey(s[i])] = MemberVal(s[i])]
                     ELSE [acc EXCEPT !["raw_extracted"] = AsVal(inner)]
             j == IF isAtom THEN i + 1 ELSE inner.next
         IN  IF ~okHere \/ j > Len(s) THEN ParseFail
             ELSE IF s[j] = "," THEN ParseMembers(s, j + 1, acc2)
             ELSE IF s[j] = "}" THEN [ok |-> TRUE, kind |-> "dict", obj |-> acc2, next |-> j + 1]
             ELSE ParseFail

\* json.loads(text): the whole text must be one JSON value.
JsonLoads(s) ==
    LET r == ParseValue(s, 1)
    IN  IF r.ok /\ r.next = Len(s) + 1
        THEN [ok |-> TRUE, kind |-> r.kind, obj |-> r.obj]
        ELSE [ok |-> FALSE, kind |-> "none", obj |-> EmptyObj]

\* The scan with a lazy quantifier, r"\{.*?\}": from the first "{" to the
\* first "}" after it.
BraceScanLazy(s) ==
    LET opens == {i \in 1..Len(s) : s[i] = "{"}
        first == CHOOSE i \in opens : \A k \in opens : i <= k
        closes == {i \in 1..Len(s) : s[i] = "}" /\ i > first}
        stop == CHOOSE i \in closes : \A k \in closes : i <= k
    IN  IF opens = {} THEN [found |-> FALSE, text |-> <<>>]
        ELSE IF closes = {} THEN [found |-> FALSE, text |-> <<>>]
        ELSE [found |-> TRUE, text |-> Slice(s, first, stop)]

\* re.search(r"\{.*\}", response, re.S): from the first "{" to the last "}".
BraceScan(s) ==
    LET opens == {i \in 1..Len(s) : s[i] = "{"}
        closes == {i \in 1..Len(s) : s[i] = "}"}
        first == CHOOSE i \in opens : \A k \in opens : i <= k
        last == CHOOSE i \in closes : \A k \in closes : k <= i
    IN  IF opens = {} \/ closes = {} THEN [found |-> FALSE, text |-> <<>>]
        ELSE IF last < first THEN [found |-> FALSE, text |-> <<>>]
        ELSE [found |-> TRUE, text |-> Slice(s, first, last)]

\* The try/except of gfg_to_json: json.loads(response), else the brace
\* scan and json.loads of its match, else ValueError with the response.
LoadResponse(resp) ==
    LET direct == JsonLoads(resp)
        match == BraceScan(resp)
        second == JsonLoads(match.text)
    IN  IF direct.ok THEN [status |-> "parsed", kind |-> direct.kind, obj |-> direct.obj]
        ELSE IF ~match.found THEN [status |-> "invalid_json", kind |-> "none", obj |-> EmptyObj]
        ELSE IF second.ok THEN [status |-> "parsed", kind |-> second.kind, obj |-> second.obj]
        ELSE [status |-> "decode_error", kind |-> "none", obj |-> EmptyObj]

\* --------------------------------------------------- parse_profile_html
Labels == {"Followers", "Following", "Solved", "Articles"}
Seps == {":", " "}
Digits == {"1", "2"}
TextAlphabet == Labels \cup Seps \cup Digits \cup {",", "x"}

DigitVal(d) == IF d = "1" THEN 1 ELSE 2

IsDigit(c) == c \in Digits

RECURSIVE Decimal(_)
Decimal(ds) ==
    IF ds = <<>> THEN 0
    ELSE 10 * Decimal(SubSeq(ds, 1, Len(ds) - 1)) + DigitVal(ds[Len(ds)])

\* The end of the longest run of tokens of class cls starting at i
\* (i - 1 when there is none).
RECURSIVE RunEnd(_, _, _)
RunEnd(text, i, cls) ==
    IF i <= Len(text) /\ text[i] \in cls THEN RunEnd(text, i + 1, cls) ELSE i - 1

NoNum == [raised |-> FALSE, some |-> FALSE, n |-> 0]

\* grab_num(pat) for the pattern label[:\s]*([0-9,]+): the leftmost match,
\* its group with the commas removed, then int() of what is left.
GrabNum(text, label) ==
    LET starts == {i \in 1..Len(text) :
                      /\ text[i] = label
                      /\ LET g == RunEnd(text, i + 1, Seps) + 1
                         IN  g <= Len(text) /\ text[g] \in Digits \cup {","}}
        m == CHOOSE i \in starts : \A k \in starts : i <= k
        g == RunEnd(text, m + 1, Seps) + 1
        group == Slice(text, g, RunEnd(text, g, Digits \cup {","}))
        stripped == SelectSeq(group, IsDigit)
    IN  IF starts = {} THEN NoNum
        ELSE IF stripped = <<>> THEN [raised |-> TRUE, some |-> FALSE, n |-> 0]
        ELSE [raised |-> FALSE, some |-> TRUE, n |-> Decimal(stripped)]

\* parse_profile_html(html): the four counters; raised when a grab_num did.
ParseProfileHtml(text) ==
    LET a == GrabNum(text, "Followers")
        b == GrabNum(text, "Following")
        c == GrabNum(text, "Solved")
        d == GrabNum(text, "Articles")
    IN  [raised |-> a.raised \/ b.raised \/ c.raised \/ d.raised,
         followers |-> a, following |-> b, problems_solved |-> c, articles_count |-> d]

NoRaw == [raised |-> FALSE, followers |-> NoNum, following |-> NoNum,
          problems_solved |-> NoNum, articles_count |-> NoNum]

\* ------------------------------------------------------- input domains
\* The page texts a fetch can return.
Pages == SeqsOver(TextAlphabet, MaxHtmlLen)

\* The model's responses: prose, then a body, then prose. A body is
\* nothing, a JSON number, or a JSON object of at most MaxMembers members.
ProseTokens == {"x", "{", "}"}
ProseTexts == SeqsOver(ProseTokens, MaxProse)

MemberTexts == {<<"U">>, <<"Fp">>, <<"Fn">>, <<"E">>, <<"R", "{", "}">>}

RECURSIVE JoinMembers(_)
JoinMembers(ms) ==
    IF ms = <<>> THEN <<>>
    ELSE IF Len(ms) = 1 THEN ms[1]
    ELSE ms[1] \o <<",">> \o JoinMembers(Tail(ms))

ObjectTexts == {<<"{">> \o JoinMembers(ms) \o <<"}">> : ms \in SeqsOver(MemberTexts, MaxMembers)}
Bodies == ObjectTexts \cup {<<"n">>, <<>>}
Replies == ProseTexts \X Bodies \X ProseTexts

Statuses == {200, 404, 500}

\* The bodies an answer of status st is tried with: the body of an answer
\* that is not a 200 is never read.
BodiesOf(st) == IF st = 200 THEN Pages ELSE {<<>>}

\* ------------------------------------------------------------- the state
NoFile == [exists |-> FALSE, doc |-> EmptyObj]
NoHtml == [some |-> FALSE, text |-> <<>>]
NoReply == [pre |-> <<>>, body |-> <<>>, post |-> <<>>]
NoProfile == GFGProfile(Absent, Absent, Absent)
NoErr == [kind |-> "none", msg |-> <<>>]
Raise(kind) == [kind |-> kind, msg |-> <<>>]

NumUrls == 2

Init ==
    /\ file = NoFile
    /\ oldFile = NoFile
    /\ pc = "idle"
    /\ url = 1
    /\ outcomes = <<>>
    /\ html = NoHtml
    /\ raw = NoRaw
    /\ reply = NoReply
    /\ response = <<>>
    /\ parsed = NoParse
    /\ profile = NoProfile
    /\ result = EmptyObj
    /\ err = NoErr
    /\ steps = <<>>
    /\ wrote = FALSE
    /\ lastOk = [some |-> FALSE, profile |-> NoProfile]

\* A run that leaves the old file where it is.
RemoveOldKeep(f) == f

\* os.path.exists(output_path) / os.remove(output_path).
RemoveOld(f) == IF f.exists THEN NoFile ELSE f

\* A call of gfg_to_json begins: the old file is removed, the locals are
\* fresh.
StartRun ==
    /\ pc \in {"idle", "done", "failed"}
    /\ oldFile' = file
    /\ file' = RemoveOld(file)
    /\ pc' = "fetch"
    /\ url' = 1
    /\ outcomes' = <<>>
    /\ html' = NoHtml
    /\ raw' = NoRaw
    /\ reply' = NoReply
    /\ response' = <<>>
    /\ parsed' = NoParse
    /\ profile' = NoProfile
    /\ result' = EmptyObj
    /\ err' = NoErr
    /\ steps' = <<"remove">>
    /\ wrote' = FALSE
    /\ UNCHANGED lastOk

\* A check for the empty string alone ("if html == ''"), which lets None pass.
NotFoundEmptyOnly(h) == h.some /\ h.text = <<>>

\* "if not html": None and the empty string are both falsy.
NotFound(h) == ~h.some \/ h.text = <<>>

\* res.status_code == 200
StatusOk(st) == st = 200

FetchStep == IF Occurs("fetch", steps) THEN steps ELSE Append(steps, "fetch")

\* fetch_gfg_profile has returned h: the check of gfg_to_json on it.
Fetched(h) ==
    /\ html' = h
    /\ IF NotFound(h)
       THEN pc' = "failed" /\ err' = Raise("ValueError: Profile not found or private.")
       ELSE pc' = "extract" /\ err' = err

\* One requests.get of the loop answers with a status and a body.
FetchAnswer(st, body) ==
    /\ pc = "fetch"
    /\ outcomes' = Append(outcomes, [raised |-> FALSE, status |-> st])
    /\ steps' = FetchStep
    /\ IF StatusOk(st)
       THEN Fetched([some |-> TRUE, text |-> body]) /\ url' = url
       ELSE IF url < NumUrls
            THEN url' = url + 1 /\ UNCHANGED <<pc, html, err>>
            ELSE Fetched(NoHtml) /\ url' = url
    /\ UNCHANGED <<file, oldFile, raw, reply, response, parsed, profile, result, wrote, lastOk>>

\* One requests.get of the loop raises (connection error, timeout): nothing
\* catches it, so gfg_to_json ends with it.
FetchRaise ==
    /\ pc = "fetch"
    /\ outcomes' = Append(outcomes, [raised |-> TRUE, status |-> 0])
    /\ steps' = FetchStep
    /\ pc' = "failed"
    /\ err' = Raise("RequestException")
    /\ UNCHANGED <<file, oldFile, url, html, raw, reply, response, parsed, profile, result,
                   wrote, lastOk>>

\* raw = parse_profile_html(html)
Extract ==
    /\ pc = "extract"
    /\ steps' = Append(steps, "extract")
    /\ LET r == ParseProfileHtml(html.text)
       IN  IF r.raised
           THEN pc' = "failed" /\ err' = Raise("ValueError: invalid literal for int()")
                /\ raw' = raw
           ELSE pc' = "invoke" /\ err' = err /\ raw' = r
    /\ UNCHANGED <<file, oldFile, url, outcomes, html, reply, response, parsed, profile,
                   result, wrote, lastOk>>

\* response = chain.invoke(...) is entered: the prompt built from username
\* and json.dumps(raw) goes to the model service, and the call blocks. html
\* and raw are not read again in this call; the model forgets them here.
Invoke ==
    /\ pc = "invoke"
    /\ steps' = Append(steps, "model")
    /\ pc' = "await"
    /\ html' = NoHtml
    /\ raw' = NoRaw
    /\ UNCHANGED <<file, oldFile, url, outcomes, reply, response, parsed, profile, result,
                   err, wrote, lastOk>>

\* chain.invoke(...) returns: the service answers with some text.
ModelAnswer(pre, body, post) ==
    /\ pc = "await"
    /\ reply' = [pre |-> pre, body |-> body, post |-> post]
    /\ response' = pre \o body \o post
    /\ pc' = "parse"
    /\ UNCHANGED <<file, oldFile, url, outcomes, html, raw, parsed, profile, result, err,
                   steps, wrote, lastOk>>

\* chain.invoke(...) raises (the service is unreachable or refuses).
ModelRaise ==
    /\ pc = "await"
    /\ pc' = "failed"
    /\ err' = Raise("ModelCallError")
    /\ UNCHANGED <<file, oldFile, url, outcomes, html, raw, reply, response, parsed, profile,
                   result, steps, wrote, lastOk>>

\* The try/except around json.loads.
Parse ==
    /\ pc = "parse"
    /\ steps' = Append(steps, "parse")
    /\ LET r == LoadResponse(response)
       IN  CASE r.status = "parsed" ->
                  /\ parsed' = [kind |-> r.kind, obj |-> r.obj]
                  /\ pc' = "validate"
                  /\ err' = err
             [] r.status = "invalid_json" ->
                  /\ parsed' = parsed
                  /\ pc' = "failed"
                  /\ err' = [kind |-> "ValueError: Invalid JSON from Falcon", msg |-> response]
             [] OTHER ->
                  /\ parsed' = parsed
                  /\ pc' = "failed"
                  /\ err' = Raise("JSONDecodeError")
    /\ UNCHANGED <<file, oldFile, url, outcomes, html, raw, reply, response, profile, result,
                   wrote, lastOk>>

\* profile = GFGProfile(**parsed); result = profile.dict()
Validate ==
    /\ pc = "validate"
    /\ steps' = Append(steps, "validate")
    /\ IF parsed.kind # "dict"
       THEN pc' = "failed" /\ err' = Raise("TypeError") /\ UNCHANGED <<profile, result>>
       ELSE IF ~FieldsValid(parsed.obj)
       THEN pc' = "failed" /\ err' = Raise("ValidationError") /\ UNCHANGED <<profile, result>>
       ELSE /\ profile' = BuildProfile(parsed.obj)
            /\ result' = ProfileDict(BuildProfile(parsed.obj))
            /\ pc' = "write"
            /\ err' = err
    /\ UNCHANGED <<file, oldFile, url, outcomes, html, raw, reply, response, parsed, wrote,
                   lastOk>>

\* A write of the unvalidated mapping, json.dump(parsed, f, ...).
DumpedParsed == parsed.obj

\* json.dump(result, f, ...): the document the file gets.
Dumped == result

\* open(output_path, "w") ... json.dump ... return result
Write ==
    /\ pc = "write"
    /\ steps' = Append(steps, "write")
    /\ file' = [exists |-> TRUE, doc |-> Dumped]
    /\ wrote' = TRUE
    /\ lastOk' = [some |-> TRUE, profile |-> profile]
    /\ pc' = "done"
    /\ UNCHANGED <<oldFile, url, outcomes, html, raw, reply, response, parsed, profile,
                   result, err>>

Next ==
    \/ StartRun
    \/ pc = "fetch" /\ \E st \in Statuses : \E body \in BodiesOf(st) : FetchAnswer(st, body)
    \/ FetchRaise
    \/ Extract
    \/ Invoke
    \/ pc = "await" /\ \E r \in Replies : ModelAnswer(r[1], r[2], r[3])
    \/ ModelRaise
    \/ Parse
    \/ Validate
    \/ Write

Spec == Init /\ [][Next]_vars

\* ================================================================ claims
NotFoundMsg == "ValueError: Profile not found or private."
InvalidJsonMsg == "ValueError: Invalid JSON from Falcon"

Canonical == <<"remove", "fetch", "extract", "model", "parse", "validate", "write">>

IsPrefix(a, b) == Len(a) <= Len(b) /\ a = Slice(b, 1, Len(a))

LastStep == IF steps = <<>> THEN "none" ELSE steps[Len(steps)]

BothNon200 ==
    /\ Len(outcomes) = NumUrls
    /\ \A i \in 1..Len(outcomes) : ~outcomes[i].raised /\ outcomes[i].status # 200

\* C1: when both requests return a status other than 200, fetch_gfg_profile
\* returns None, gfg_to_json ends with the ValueError "Profile not found or
\* private." and the run writes nothing to the output path.
C1_NotFoundWhenBothNon200 ==
    BothNon200 =>
        /\ ~html.some
        /\ pc = "failed"
        /\ err.kind = NotFoundMsg
        /\ ~wrote
        /\ ~file.exists

C1_Witness == BothNon200 /\ pc = "failed" /\ outcomes[1].status # outcomes[2].status

HasExtraKey == parsed.kind = "dict" /\ parsed.obj["contest_rating"].kind # "absent"

\* C2: a parsed response that is an object with a top-level key that is no
\* field of GFGProfile makes the run fail at validation: it never goes on to
\* the write.
C2_ExtraKeyRejected == HasExtraKey => (pc \notin {"write", "done"} /\ ~wrote)

\* C3: the steps of a run occur in the order remove, fetch, extract, model
\* call, parse, validate, write; no file is at the output path between the
\* removal and the write; the write happens only after validation has
\* succeeded; a run that ends in a failure has written nothing.
C3_WriteOnlyAfterValidation ==
    /\ IsPrefix(steps, Canonical)
    /\ (pc \notin {"idle", "done"} => ~file.exists)
    /\ wrote => /\ steps = Canonical
                /\ err.kind = "none"
                /\ parsed.kind = "dict"
                /\ parsed.obj["username"].kind = "str"
    /\ pc = "failed" => ~wrote

C3_Witness ==
    /\ pc = "failed"
    /\ err.kind = "ValidationError"
    /\ oldFile.exists
    /\ steps = Slice(Canonical, 1, 6)

AllFailedSoFar ==
    /\ outcomes # <<>>
    /\ \A i \in 1..Len(outcomes) : outcomes[i].raised \/ outcomes[i].status # 200

\* C4: a request that raises counts as a failed URL like a non-200 status:
\* the remaining URL is still tried, and when both URLs have failed the run
\* ends with "Profile not found or private." and writes nothing.
C4_NetworkErrorCountsAsFailedUrl ==
    AllFailedSoFar =>
        IF Len(outcomes) < NumUrls THEN pc = "fetch"
        ELSE pc = "failed" /\ err.kind = NotFoundMsg /\ ~wrote

\* C5: when json.loads of the whole response fails and that of the
\* brace-scan match fails too (or there is no match), the run ends with the
\* "Invalid JSON" ValueError whose message holds the raw response, and
\* writes nothing.
C5_InvalidJsonError ==
    (pc = "failed" /\ LastStep = "parse") =>
        /\ err.kind = InvalidJsonMsg
        /\ err.msg = response
        /\ ~wrote

\* The response is prose + a valid JSON object + prose, is not valid JSON as
\* a whole, and the parse step has run on it.
Embedded ==
    /\ Occurs("parse", steps)
    /\ reply.body \in ObjectTexts
    /\ response = reply.pre \o reply.body \o reply.post
    /\ ~JsonLoads(response).ok

ParsedIsBody == parsed = [kind |-> "dict", obj |-> JsonLoads(reply.body).obj]

\* C6 as stated: for every response prose + valid JSON object + prose, the
\* brace-scan fallback yields exactly the embedded object, whatever tokens
\* the prose holds ("{" and "}" included).
C6_EmbeddedObjectExtracted == Embedded => ParsedIsBody

\* C6 as amended: the same, for prose whose prefix holds no "{" and whose
\* suffix holds no "}".
C6_EmbeddedObjectExtractedCleanProse ==
    (Embedded /\ ~Occurs("{", reply.pre) /\ ~Occurs("}", reply.post)) => ParsedIsBody

C6_Witness ==
    /\ Embedded
    /\ reply.pre = <<"}">>
    /\ reply.post = <<"{">>
    /\ Occurs("R", reply.body)
    /\ pc = "validate"
    /\ ParsedIsBody

NonNegative(v) == v.kind = "null" \/ (v.kind = "int" /\ v.n >= 0)

\* C7: in every Profile that passes validation, and so in every file written
\* and every value returned, the counter is null or a non-negative integer.
C7_CountersNonNegative ==
    /\ pc \in {"write", "done"} => NonNegative(result["followers"])
    /\ file.exists => NonNegative(file.doc["followers"])

\* C8: a file at the output path holds exactly the validated Profile of the
\* most recent successful run: its fields, and no other key.
C8_FileIsLastSuccess ==
    file.exists =>
        /\ lastOk.some
        /\ file.doc["username"] = lastOk.profile.username
        /\ file.doc["followers"] = lastOk.profile.followers
        /\ file.doc["raw_extracted"] = lastOk.profile.raw_extracted
        /\ file.doc["contest_rating"] = Absent

C8_Witness ==
    /\ pc = "done"
    /\ file.exists
    /\ oldFile.exists
    /\ oldFile.doc["followers"] # file.doc["followers"]

\* C9: a counter search of parse_profile_html never raises, whatever tokens
\* of [0-9,] follow the label: the extraction step never ends the run.
C9_GrabNumNeverRaises == LastStep = "extract" => (pc = "invoke" /\ err.kind = "none")

\* C10: after a run that ended in a failure no file is at the output path,
\* also when an earlier run had left one there.
C10_NoFileAfterFailure == pc = "failed" => ~file.exists

C10_Witness ==
    /\ pc = "failed"
    /\ oldFile.exists
    /\ ~file.exists
    /\ LastStep \in {"parse", "validate"}

====
